---- MODULE Spec2Model ----
(***************************************************************************)
(* Model of the synthesis Oscillator (src/src/oscillator/mod.rs): the      *)
(* composite of four capabilities, its constructor, its three builders     *)
(* and its two per-sample operations amp_at and next_phase.                *)
(*                                                                         *)
(* Numbers.  f64/f32 values are modelled as exact extended rationals:      *)
(* [n, d] with d > 0 is the reduced fraction n/d; d = 0 encodes the        *)
(* non-finite values (n = 1: +inf, n = -1: -inf, n = 0: NaN).  Rounding    *)
(* and the sign of zero are not modelled.                                  *)
(*                                                                         *)
(* Capabilities.  The trait implementations (waveform, amplitude,          *)
(* frequency, freq_warp sub-modules) are not part of the source at hand;   *)
(* they are modelled from their contracts as small families of pure        *)
(* functions selected by a capability value.                               *)
(***************************************************************************)
EXTENDS Integers, Sequences, FiniteSets, TLC

VARIABLES
    osc,            \* the Oscillator value the voices share
    phase,          \* phase[v]: the phase variable voice v owns
    warp_phase,     \* warp_phase[v]: the warp-phase accumulator voice v owns
    last,           \* the last operation: its arguments, its result
    ncalls,         \* number of next_phase calls made
    new_freq_warp,  \* history: the freq_warp passed to new
    assigned,       \* history: <<b>> once the holder assigned is_muted := b
    solo,           \* history: each voice's state replayed on a private copy
    run,            \* history: each voice's current run of like next_phase calls
    prev            \* history: <<the operation before the last one>>

vars == <<osc, phase, warp_phase, last, ncalls,
          new_freq_warp, assigned, solo, run, prev>>

\* ---------------------------------------------------------------- bounds
\* next_phase calls in a run of Spec (patch edits and calls interleaved)
MaxCalls == 2
\* next_phase calls in a run of SpecPlay (a fixed patch played by the voices)
MaxRun == 3
\* next_phase calls in a run of SpecPure (calls compared with the call before)
MaxPure == 2

\* ------------------------------------------------------------ arithmetic
RECURSIVE GCD(_, _)
GCD(a, b) == IF b = 0 THEN a ELSE GCD(b, a % b)

Abs(i) == IF i < 0 THEN -i ELSE i

Norm(n, d) ==
    LET g == GCD(Abs(n), d)
    IN  [n |-> n \div g, d |-> d \div g]

R(n, d) == Norm(n, d)

NaN == [n |-> 0, d |-> 0]

Inf(s) == [n |-> s, d |-> 0]

IsFin(x) == x.d > 0

Sign(x) == IF x.n > 0 THEN 1 ELSE IF x.n < 0 THEN -1 ELSE 0

Neg(x) == [n |-> -x.n, d |-> x.d]

Add(a, b) ==
    IF IsFin(a) /\ IsFin(b) THEN Norm(a.n * b.d + b.n * a.d, a.d * b.d)
    ELSE IF IsFin(a) THEN b
    ELSE IF IsFin(b) THEN a
    ELSE IF a = b THEN a ELSE NaN

Sub(a, b) == Add(a, Neg(b))

Mul(a, b) ==
    IF IsFin(a) /\ IsFin(b) THEN Norm(a.n * b.n, a.d * b.d)
    ELSE Inf(Sign(a) * Sign(b))

Div(a, b) ==
    IF IsFin(b) /\ b.n # 0
        THEN Mul(a, Norm(Sign(b) * b.d, Abs(b.n)))
    ELSE IF IsFin(b)
        THEN (IF IsFin(a) THEN Inf(Sign(a)) ELSE a)
    ELSE IF IsFin(a) /\ b.n # 0 THEN R(0, 1) ELSE NaN

Lt(a, b) == IsFin(a) /\ IsFin(b) /\ a.n * b.d < b.n * a.d

\* fractional part of a finite value, NaN otherwise
Fract(x) == IF IsFin(x) THEN Norm(x.n % x.d, x.d) ELSE NaN

\* ---------------------------------------------------------- capabilities
Saw    == [shape |-> "Saw", hz_scale |-> 1]
Square == [shape |-> "Square", hz_scale |-> 2]
Waveforms == {Saw, Square}

amp_at_phase(w, ph) ==
    IF w.shape = "Saw"
        THEN Sub(R(1, 1), Mul(R(2, 1), Fract(ph)))
        ELSE IF Lt(Fract(ph), R(1, 2)) THEN R(1, 1) ELSE R(-1, 1)

process_hz(w, hz) == Mul(R(w.hz_scale, 1), hz)

Amplitudes == {[lo |-> 1, hi |-> 1], [lo |-> 0, hi |-> 1]}

amp_at_playhead(a, p) == Add(R(a.lo, 1), Mul(R(a.hi - a.lo, 1), p))

Frequencies == {[lo |-> 3, hi |-> 3], [lo |-> 0, hi |-> 2]}

hz_at_playhead(f, p) == Add(R(f.lo, 1), Mul(R(f.hi - f.lo, 1), p))

FreqWarps == {[rate |-> 0, depth |-> 0], [rate |-> 1, depth |-> 0],
              [rate |-> 1, depth |-> 1]}

step_phase(fw, sample_hz, wp) ==
    IF fw.rate = 0 THEN wp ELSE Add(wp, Div(R(fw.rate, 1), sample_hz))

warp_hz(fw, hz, wp) ==
    IF fw.depth = 0 THEN hz ELSE Add(hz, Mul(R(fw.depth, 1), wp))

\* --------------------------------------------------------------- inputs
Voices    == {1, 2}
\* the voice that plays while the patch is being edited
Editors   == {1}
phase0(v) == R(v - 1, 2)
Playheads == {R(0, 1), R(1, 2)}
\* per-sample inputs of next_phase: playhead_perc, note_freq_multi, sample_hz
Samples ==
    { [playhead_perc |-> R(0, 1), note_freq_multi |-> R(1, 1), sample_hz |-> R(2, 1)],
      [playhead_perc |-> R(1, 2), note_freq_multi |-> R(1, 1), sample_hz |-> R(2, 1)],
      [playhead_perc |-> R(1, 2), note_freq_multi |-> R(2, 1), sample_hz |-> R(2, 1)],
      [playhead_perc |-> R(0, 1), note_freq_multi |-> R(1, 1), sample_hz |-> R(0, 1)] }

\* ----------------------------------------------------------- Oscillator
\* variant: the constructor starts muted
new_muted(w, a, f, fw) ==
    [waveform |-> w, amplitude |-> a, frequency |-> f, freq_warp |-> fw,
     is_muted |-> TRUE]

new(w, a, f, fw) ==
    [waveform |-> w, amplitude |-> a, frequency |-> f, freq_warp |-> fw,
     is_muted |-> FALSE]

\* variant: the builder rebuilds through the constructor and loses the flag
waveform_unmuted(self, w) ==
    [waveform |-> w, amplitude |-> self.amplitude,
     frequency |-> self.frequency, freq_warp |-> self.freq_warp,
     is_muted |-> FALSE]

waveform(self, w) ==
    [waveform |-> w, amplitude |-> self.amplitude,
     frequency |-> self.frequency, freq_warp |-> self.freq_warp,
     is_muted |-> self.is_muted]

amplitude(self, a) ==
    [waveform |-> self.waveform, amplitude |-> a,
     frequency |-> self.frequency, freq_warp |-> self.freq_warp,
     is_muted |-> self.is_muted]

frequency(self, f) ==
    [waveform |-> self.waveform, amplitude |-> self.amplitude,
     frequency |-> f, freq_warp |-> self.freq_warp,
     is_muted |-> self.is_muted]

\* variant: the amplitude envelope is left out
amp_at_no_envelope(self, ph, playhead_perc) ==
    [self |-> self,
     ret  |-> amp_at_phase(self.waveform, ph)]

\* amp_at takes &self: the result carries the Oscillator as the call leaves it
amp_at(self, ph, playhead_perc) ==
    [self |-> self,
     ret  |-> Mul(amp_at_phase(self.waveform, ph),
                  amp_at_playhead(self.amplitude, playhead_perc))]

\* variant: the frequency is warped before the accumulator is stepped
next_phase_warp_first(self, ph, playhead_perc, note_freq_multi, sample_hz, freq_warp_phase) ==
    LET hz0       == hz_at_playhead(self.frequency, playhead_perc)
        hz        == process_hz(self.waveform, hz0)
        warped_hz == warp_hz(self.freq_warp, hz, freq_warp_phase)
        wp1       == step_phase(self.freq_warp, sample_hz, freq_warp_phase)
        note_hz   == Mul(warped_hz, note_freq_multi)
    IN  [self |-> self,
         ret  |-> Add(ph, Div(note_hz, sample_hz)),
         freq_warp_phase |-> wp1,
         calls |-> << [fn |-> "hz_at_playhead", wp |-> freq_warp_phase, out |-> hz0],
                      [fn |-> "process_hz",     wp |-> freq_warp_phase, out |-> hz],
                      [fn |-> "warp_hz",        wp |-> freq_warp_phase, out |-> warped_hz],
                      [fn |-> "step_phase",     wp |-> freq_warp_phase, out |-> wp1] >>]

\* variant: the call mutes the Oscillator it was given
next_phase_mutes(self, ph, playhead_perc, note_freq_multi, sample_hz, freq_warp_phase) ==
    LET hz0       == hz_at_playhead(self.frequency, playhead_perc)
        hz        == process_hz(self.waveform, hz0)
        wp1       == step_phase(self.freq_warp, sample_hz, freq_warp_phase)
        warped_hz == warp_hz(self.freq_warp, hz, wp1)
        note_hz   == Mul(warped_hz, note_freq_multi)
    IN  [self |-> [self EXCEPT !.is_muted = TRUE],
         ret  |-> Add(ph, Div(note_hz, sample_hz)),
         freq_warp_phase |-> wp1,
         calls |-> << [fn |-> "hz_at_playhead", wp |-> freq_warp_phase, out |-> hz0],
                      [fn |-> "process_hz",     wp |-> freq_warp_phase, out |-> hz],
                      [fn |-> "step_phase",     wp |-> freq_warp_phase, out |-> wp1],
                      [fn |-> "warp_hz",        wp |-> wp1,             out |-> warped_hz] >>]

\* variant: the phase passed in is not added to the increment
next_phase_drops_phase(self, ph, playhead_perc, note_freq_multi, sample_hz, freq_warp_phase) ==
    LET hz0       == hz_at_playhead(self.frequency, playhead_perc)
        hz        == process_hz(self.waveform, hz0)
        wp1       == step_phase(self.freq_warp, sample_hz, freq_warp_phase)
        warped_hz == warp_hz(self.freq_warp, hz, wp1)
        note_hz   == Mul(warped_hz, note_freq_multi)
    IN  [self |-> self,
         ret  |-> Div(note_hz, sample_hz),
         freq_warp_phase |-> wp1,
         calls |-> << [fn |-> "hz_at_playhead", wp |-> freq_warp_phase, out |-> hz0],
                      [fn |-> "process_hz",     wp |-> freq_warp_phase, out |-> hz],
                      [fn |-> "step_phase",     wp |-> freq_warp_phase, out |-> wp1],
                      [fn |-> "warp_hz",        wp |-> wp1,             out |-> warped_hz] >>]

\* variant: the returned phase is wrapped into [0, 1)
next_phase_wrapped(self, ph, playhead_perc, note_freq_multi, sample_hz, freq_warp_phase) ==
    LET hz0       == hz_at_playhead(self.frequency, playhead_perc)
        hz        == process_hz(self.waveform, hz0)
        wp1       == step_phase(self.freq_warp, sample_hz, freq_warp_phase)
        warped_hz == warp_hz(self.freq_warp, hz, wp1)
        note_hz   == Mul(warped_hz, note_freq_multi)
    IN  [self |-> self,
         ret  |-> Fract(Add(ph, Div(note_hz, sample_hz))),
         freq_warp_phase |-> wp1,
         calls |-> << [fn |-> "hz_at_playhead", wp |-> freq_warp_phase, out |-> hz0],
                      [fn |-> "process_hz",     wp |-> freq_warp_phase, out |-> hz],
                      [fn |-> "step_phase",     wp |-> freq_warp_phase, out |-> wp1],
                      [fn |-> "warp_hz",        wp |-> wp1,             out |-> warped_hz] >>]

\* variant: the frequency is jittered from a hidden counter of calls
next_phase_hidden_state(self, ph, playhead_perc, note_freq_multi, sample_hz, freq_warp_phase) ==
    LET hz0       == hz_at_playhead(self.frequency, playhead_perc)
        hz        == process_hz(self.waveform, hz0)
        wp1       == step_phase(self.freq_warp, sample_hz, freq_warp_phase)
        warped_hz == warp_hz(self.freq_warp, hz, wp1)
        note_hz   == Mul(Add(warped_hz, R(ncalls, 1)), note_freq_multi)
    IN  [self |-> self,
         ret  |-> Add(ph, Div(note_hz, sample_hz)),
         freq_warp_phase |-> wp1,
         calls |-> << [fn |-> "hz_at_playhead", wp |-> freq_warp_phase, out |-> hz0],
                      [fn |-> "process_hz",     wp |-> freq_warp_phase, out |-> hz],
                      [fn |-> "step_phase",     wp |-> freq_warp_phase, out |-> wp1],
                      [fn |-> "warp_hz",        wp |-> wp1,             out |-> warped_hz] >>]

\* variant: a muted Oscillator stands still
next_phase_muted_holds(self, ph, playhead_perc, note_freq_multi, sample_hz, freq_warp_phase) ==
    LET hz0       == hz_at_playhead(self.frequency, playhead_perc)
        hz        == process_hz(self.waveform, hz0)
        wp1       == step_phase(self.freq_warp, sample_hz, freq_warp_phase)
        warped_hz == warp_hz(self.freq_warp, hz, wp1)
        note_hz   == Mul(warped_hz, note_freq_multi)
    IN  IF self.is_muted
        THEN [self |-> self, ret |-> ph, freq_warp_phase |-> freq_warp_phase,
              calls |-> <<>>]
        ELSE
        [self |-> self,
         ret  |-> Add(ph, Div(note_hz, sample_hz)),
         freq_warp_phase |-> wp1,
         calls |-> << [fn |-> "hz_at_playhead", wp |-> freq_warp_phase, out |-> hz0],
                      [fn |-> "process_hz",     wp |-> freq_warp_phase, out |-> hz],
                      [fn |-> "step_phase",     wp |-> freq_warp_phase, out |-> wp1],
                      [fn |-> "warp_hz",        wp |-> wp1,             out |-> warped_hz] >>]

\* next_phase: the statements of the body in order; calls is the sequence
\* of capability calls made, with the warp phase each one sees
next_phase(self, ph, playhead_perc, note_freq_multi, sample_hz, freq_warp_phase) ==
    LET hz0       == hz_at_playhead(self.frequency, playhead_perc)
        hz        == process_hz(self.waveform, hz0)
        wp1       == step_phase(self.freq_warp, sample_hz, freq_warp_phase)
        warped_hz == warp_hz(self.freq_warp, hz, wp1)
        note_hz   == Mul(warped_hz, note_freq_multi)
    IN  [self |-> self,
         ret  |-> Add(ph, Div(note_hz, sample_hz)),
         freq_warp_phase |-> wp1,
         calls |-> << [fn |-> "hz_at_playhead", wp |-> freq_warp_phase, out |-> hz0],
                      [fn |-> "process_hz",     wp |-> freq_warp_phase, out |-> hz],
                      [fn |-> "step_phase",     wp |-> freq_warp_phase, out |-> wp1],
                      [fn |-> "warp_hz",        wp |-> wp1,             out |-> warped_hz] >>]

\* ----------------------------------------------------------------- state
Init ==
    /\ \E w \in Waveforms, a \in Amplitudes, f \in Frequencies, fw \in FreqWarps :
          /\ osc = new(w, a, f, fw)
          /\ last = [op |-> "new", waveform |-> w, amplitude |-> a,
                      frequency |-> f, freq_warp |-> fw]
          /\ new_freq_warp = fw
    /\ phase = [v \in Voices |-> phase0(v)]
    /\ warp_phase = [v \in Voices |-> R(0, 1)]
    /\ ncalls = 0
    /\ assigned = <<>>
    /\ solo = [v \in Voices |-> [phase |-> phase0(v), warp_phase |-> R(0, 1)]]
    /\ run = [v \in Voices |-> [n |-> 0, phase0 |-> phase0(v)]]
    /\ prev = <<>>

\* ---------------------------------------------------------------- actions
Waveform(x) ==
    /\ osc' = waveform(osc, x)
    /\ last' = [op |-> "waveform", self |-> osc, arg |-> x]
    /\ UNCHANGED <<phase, warp_phase, ncalls, new_freq_warp, assigned, solo>>

Amplitude(x) ==
    /\ osc' = amplitude(osc, x)
    /\ last' = [op |-> "amplitude", self |-> osc, arg |-> x]
    /\ UNCHANGED <<phase, warp_phase, ncalls, new_freq_warp, assigned, solo>>

Frequency(x) ==
    /\ osc' = frequency(osc, x)
    /\ last' = [op |-> "frequency", self |-> osc, arg |-> x]
    /\ UNCHANGED <<phase, warp_phase, ncalls, new_freq_warp, assigned, solo>>

\* the holder assigns the public field is_muted
SetMuted(b) ==
    /\ osc' = [osc EXCEPT !.is_muted = b]
    /\ assigned' = <<b>>
    /\ last' = [op |-> "is_muted", self |-> osc, arg |-> b]
    /\ UNCHANGED <<phase, warp_phase, ncalls, new_freq_warp, solo>>

\* voice v looks up its amplitude multiplier
AmpAt(v, playhead_perc) ==
    LET r == amp_at(osc, phase[v], playhead_perc)
    IN  /\ osc' = r.self
        /\ last' = [op |-> "amp_at", voice |-> v, self |-> osc, phase |-> phase[v],
                    playhead_perc |-> playhead_perc, warp_phase |-> warp_phase[v],
                    ret |-> r.ret]
        /\ UNCHANGED <<phase, warp_phase, ncalls, new_freq_warp, assigned, solo>>

\* variant: one accumulator serves every voice
NextPhaseShared(v, playhead_perc, note_freq_multi, sample_hz) ==
    LET r == next_phase(osc, phase[v], playhead_perc, note_freq_multi,
                        sample_hz, warp_phase[v])
        s == next_phase(osc, solo[v].phase, playhead_perc, note_freq_multi,
                        sample_hz, solo[v].warp_phase)
    IN  /\ ncalls' = ncalls + 1
        /\ osc' = r.self
        /\ warp_phase' = [u \in Voices |-> r.freq_warp_phase]
        /\ last' = [op |-> "next_phase", voice |-> v, self |-> osc,
                    phase |-> phase[v], playhead_perc |-> playhead_perc,
                    note_freq_multi |-> note_freq_multi, sample_hz |-> sample_hz,
                    warp_phase |-> warp_phase[v], ret |-> r.ret,
                    warp_phase_out |-> r.freq_warp_phase, calls |-> r.calls]
        /\ solo' = [solo EXCEPT ![v] = [phase |-> s.ret,
                                        warp_phase |-> s.freq_warp_phase]]
        /\ UNCHANGED <<phase, new_freq_warp, assigned>>

\* voice v calls next_phase: it passes its phase by value and its
\* accumulator by reference; the returned phase is in last.ret
NextPhase(v, playhead_perc, note_freq_multi, sample_hz) ==
    LET r == next_phase(osc, phase[v], playhead_perc, note_freq_multi,
                        sample_hz, warp_phase[v])
        s == next_phase(osc, solo[v].phase, playhead_perc, note_freq_multi,
                        sample_hz, solo[v].warp_phase)
    IN  /\ ncalls' = ncalls + 1
        /\ osc' = r.self
        /\ warp_phase' = [warp_phase EXCEPT ![v] = r.freq_warp_phase]
        /\ last' = [op |-> "next_phase", voice |-> v, self |-> osc,
                    phase |-> phase[v], playhead_perc |-> playhead_perc,
                    note_freq_multi |-> note_freq_multi, sample_hz |-> sample_hz,
                    warp_phase |-> warp_phase[v], ret |-> r.ret,
                    warp_phase_out |-> r.freq_warp_phase, calls |-> r.calls]
        /\ solo' = [solo EXCEPT ![v] = [phase |-> s.ret,
                                        warp_phase |-> s.freq_warp_phase]]
        /\ UNCHANGED <<phase, new_freq_warp, assigned>>

\* a next_phase call has returned and its result is not stored yet
Pending == last.op = "next_phase"

\* the voice keeps the returned phase as its phase for the next sample
Feed(v) ==
    /\ Pending
    /\ last.voice = v
    /\ phase' = [phase EXCEPT ![v] = last.ret]
    /\ last' = [op |-> "feed", voice |-> v]
    /\ UNCHANGED <<osc, warp_phase, ncalls, new_freq_warp, assigned, solo>>

\* the phase voice v holds once it has stored a pending result
Current(v) == IF Pending /\ last.voice = v THEN last.ret ELSE phase[v]

\* ------------------------------------------------------ history variables
\* the run of voice v: consecutive next_phase calls with the same
\* note_freq_multi and sample_hz, each fed the phase the one before returned
Run(v, note_freq_multi, sample_hz) ==
    run' = [run EXCEPT ![v] =
               IF /\ @.n > 0
                  /\ @.sample_hz = sample_hz
                  /\ @.note_freq_multi = note_freq_multi
               THEN [@ EXCEPT !.n = @ + 1]
               ELSE [n |-> 1, phase0 |-> phase[v], sample_hz |-> sample_hz,
                     note_freq_multi |-> note_freq_multi]]

\* the call that came before the last one
Remember ==
    prev' = IF last.op \in {"amp_at", "next_phase"} THEN <<last>> ELSE prev

\* ------------------------------------------------- patch edits and calls
\* the program is single-threaded: a voice stores the phase a call returned
\* before anything else happens
Next ==
    \/ \E v \in Editors : Feed(v) /\ UNCHANGED <<run, prev>>
    \/ \E x \in Waveforms : ~Pending /\ Waveform(x) /\ UNCHANGED <<run, prev>>
    \/ \E x \in Amplitudes : ~Pending /\ Amplitude(x) /\ UNCHANGED <<run, prev>>
    \/ \E x \in Frequencies : ~Pending /\ Frequency(x) /\ UNCHANGED <<run, prev>>
    \/ \E b \in BOOLEAN : ~Pending /\ SetMuted(b) /\ UNCHANGED <<run, prev>>
    \/ \E v \in Editors, p \in Playheads :
          ~Pending /\ AmpAt(v, p) /\ UNCHANGED <<run, prev>>
    \/ \E v \in Editors, i \in Samples :
          /\ ~Pending
          /\ ncalls < MaxCalls
          /\ NextPhase(v, i.playhead_perc, i.note_freq_multi, i.sample_hz)
          /\ UNCHANGED <<run, prev>>

Spec == Init /\ [][Next]_vars

\* ------------------------------------------- a fixed patch, played by voices
NextPlay ==
    \/ \E v \in Voices : Feed(v) /\ UNCHANGED <<run, prev>>
    \/ \E v \in Voices, p \in Playheads :
          ~Pending /\ AmpAt(v, p) /\ UNCHANGED <<run, prev>>
    \/ \E v \in Voices, i \in Samples :
          /\ ~Pending
          /\ ncalls < MaxRun
          /\ NextPhase(v, i.playhead_perc, i.note_freq_multi, i.sample_hz)
          /\ Run(v, i.note_freq_multi, i.sample_hz)
          /\ UNCHANGED prev

SpecPlay == Init /\ [][NextPlay]_vars

\* --------------------------- the same, each call remembered for the next one
NextPure ==
    \/ \E v \in Voices : Feed(v) /\ Remember /\ UNCHANGED run
    \/ \E v \in Voices, p \in Playheads :
          ~Pending /\ AmpAt(v, p) /\ Remember /\ UNCHANGED run
    \/ \E v \in Voices, i \in Samples :
          /\ ~Pending
          /\ ncalls < MaxPure
          /\ NextPhase(v, i.playhead_perc, i.note_freq_multi, i.sample_hz)
          /\ Remember
          /\ UNCHANGED run

SpecPure == Init /\ [][NextPure]_vars

\* ================================================================ claims
IsCall == last.op \in {"amp_at", "next_phase"}

Flip(o) == [o EXCEPT !.is_muted = ~@]

\* C1: each builder returns an Oscillator whose replaced capability is the
\* argument and whose other three capabilities and is_muted are those of the
\* Oscillator it consumed; hence freq_warp is always the one passed to new and
\* is_muted the last value assigned to it (false, by new, before any).
C1_BuilderPreservation ==
    /\ last.op = "waveform" =>
          /\ osc.waveform = last.arg
          /\ osc.amplitude = last.self.amplitude
          /\ osc.frequency = last.self.frequency
          /\ osc.freq_warp = last.self.freq_warp
          /\ osc.is_muted = last.self.is_muted
    /\ last.op = "amplitude" =>
          /\ osc.amplitude = last.arg
          /\ osc.waveform = last.self.waveform
          /\ osc.frequency = last.self.frequency
          /\ osc.freq_warp = last.self.freq_warp
          /\ osc.is_muted = last.self.is_muted
    /\ last.op = "frequency" =>
          /\ osc.frequency = last.arg
          /\ osc.waveform = last.self.waveform
          /\ osc.amplitude = last.self.amplitude
          /\ osc.freq_warp = last.self.freq_warp
          /\ osc.is_muted = last.self.is_muted
    /\ osc.freq_warp = new_freq_warp
    /\ osc.is_muted = (IF assigned = <<>> THEN FALSE ELSE assigned[1])

\* a muted Oscillator that has been played gets a different waveform
C1_Witness ==
    /\ last.op = "waveform"
    /\ last.self.is_muted
    /\ last.arg # last.self.waveform
    /\ ncalls > 0

\* C2: in every next_phase call step_phase is applied exactly once, to the
\* caller's warp phase, before warp_hz is evaluated, and warp_hz receives the
\* stepped value, which is also the value left in the caller's accumulator.
C2_StepBeforeWarp ==
    last.op = "next_phase" =>
        LET c     == last.calls
            steps == {i \in DOMAIN c : c[i].fn = "step_phase"}
            warps == {i \in DOMAIN c : c[i].fn = "warp_hz"}
        IN  /\ Cardinality(steps) = 1
            /\ Cardinality(warps) = 1
            /\ \A i \in steps, j \in warps :
                  /\ i < j
                  /\ c[i].wp = last.warp_phase
                  /\ c[i].out = step_phase(last.self.freq_warp, last.sample_hz,
                                           last.warp_phase)
                  /\ c[j].wp = c[i].out
                  /\ warp_phase[last.voice] = c[i].out

\* a call whose step changed the accumulator, with a warp that reads it
C2_Witness ==
    /\ last.op = "next_phase"
    /\ last.self.freq_warp.depth # 0
    /\ last.warp_phase # R(0, 1)
    /\ IsFin(last.warp_phase)
    /\ warp_phase[last.voice] # last.warp_phase

\* C3: when a next_phase call returns, the Oscillator is as it was, field by
\* field, and so is the phase variable the caller passed; the accumulator
\* holds the stepped value; this after any number of calls.
C3_OnlyWarpPhaseChanges ==
    last.op = "next_phase" =>
        /\ osc.waveform = last.self.waveform
        /\ osc.amplitude = last.self.amplitude
        /\ osc.frequency = last.self.frequency
        /\ osc.freq_warp = last.self.freq_warp
        /\ osc.is_muted = last.self.is_muted
        /\ phase[last.voice] = last.phase
        /\ warp_phase[last.voice] = last.warp_phase_out

\* the third call in a row, one that moved the accumulator
C3_Witness ==
    /\ last.op = "next_phase"
    /\ ncalls >= 3
    /\ warp_phase[last.voice] # last.warp_phase

\* C4: with a constant frequency, process_hz and warp_hz the identity,
\* note_freq_multi = 1 and one finite non-zero sample_hz, N calls each fed the
\* phase returned by the one before end at phase0 + N * hz / sample_hz.
ConstantHz(f) ==
    \A p \in Playheads, q \in Playheads : hz_at_playhead(f, p) = hz_at_playhead(f, q)

HzProbes == {R(0, 1), R(1, 1), R(3, 2)}

IdentityProcess(w) == \A hz \in HzProbes : process_hz(w, hz) = hz

IdentityWarp(fw) ==
    \A hz \in HzProbes, wp \in HzProbes : warp_hz(fw, hz, wp) = hz

Steady(v) ==
    /\ ConstantHz(osc.frequency)
    /\ IdentityProcess(osc.waveform)
    /\ IdentityWarp(osc.freq_warp)
    /\ run[v].n > 0 =>
          /\ run[v].note_freq_multi = R(1, 1)
          /\ IsFin(run[v].sample_hz)
          /\ run[v].sample_hz.n # 0

C4_PhaseAccumulation ==
    \A v \in Voices :
        Steady(v) =>
            Current(v) =
                IF run[v].n = 0 THEN run[v].phase0
                ELSE Add(run[v].phase0,
                         Div(Mul(R(run[v].n, 1),
                                 hz_at_playhead(osc.frequency, R(0, 1))),
                             run[v].sample_hz))

\* three steady calls in a row by the voice that starts at 1/2, its
\* accumulator stepping all the while
C4_Witness ==
    \E v \in Voices :
        /\ Steady(v)
        /\ run[v].n >= 3
        /\ run[v].phase0 # R(0, 1)
        /\ warp_phase[v] # R(0, 1)

\* C5: next_phase returns phase + (warp_hz(process_hz(hz_at_playhead(p)), wp')
\* * note_freq_multi) / sample_hz with wp' the stepped warp phase; nothing
\* wraps the result.
C5_NextPhaseValue ==
    last.op = "next_phase" =>
        LET o   == last.self
            wp1 == step_phase(o.freq_warp, last.sample_hz, last.warp_phase)
            hz  == process_hz(o.waveform,
                              hz_at_playhead(o.frequency, last.playhead_perc))
        IN  last.ret = Add(last.phase,
                           Div(Mul(warp_hz(o.freq_warp, hz, wp1),
                                   last.note_freq_multi),
                               last.sample_hz))

\* a phase beyond 1 is fed back and grows on, with a waveform that rescales
\* the frequency, a warp that adds to it and a note multiplier of 2
C5_Witness ==
    /\ last.op = "next_phase"
    /\ Lt(R(1, 1), last.phase)
    /\ Lt(last.phase, last.ret)
    /\ ~ IdentityProcess(last.self.waveform)
    /\ ~ IdentityWarp(last.self.freq_warp)
    /\ last.note_freq_multi = R(2, 1)

\* C6: amp_at returns amp_at_phase(phase) * amp_at_playhead(playhead_perc)
\* and writes nothing: the Oscillator, the voice's phase and its accumulator
\* are as before the call.
C6_AmpAtValue ==
    last.op = "amp_at" =>
        /\ last.ret = Mul(amp_at_phase(last.self.waveform, last.phase),
                          amp_at_playhead(last.self.amplitude, last.playhead_perc))
        /\ osc = last.self
        /\ phase[last.voice] = last.phase
        /\ warp_phase[last.voice] = last.warp_phase
        /\ \A u \in Voices : /\ phase[u] = solo[u].phase
                             /\ warp_phase[u] = solo[u].warp_phase

\* both factors differ from 1 and from 0, after the voice has advanced
C6_Witness ==
    /\ last.op = "amp_at"
    /\ ncalls > 0
    /\ phase[last.voice] # phase0(last.voice)
    /\ amp_at_phase(last.self.waveform, last.phase) \notin {R(0, 1), R(1, 1)}
    /\ amp_at_playhead(last.self.amplitude, last.playhead_perc) \notin {R(0, 1), R(1, 1)}
    /\ IsFin(last.ret)

\* C7: new(w, a, f, fw) holds exactly w, a, f, fw and is_muted = false, and
\* is_muted stays false through builders and calls until the holder assigns it.
C7_NewUnmuted ==
    /\ last.op = "new" =>
          osc = [waveform |-> last.waveform, amplitude |-> last.amplitude,
                 frequency |-> last.frequency, freq_warp |-> last.freq_warp,
                 is_muted |-> FALSE]
    /\ assigned = <<>> => osc.is_muted = FALSE

\* never assigned, after calls and a builder that changed the patch
C7_Witness ==
    /\ assigned = <<>>
    /\ ncalls > 1
    /\ last.op = "frequency"
    /\ last.arg # last.self.frequency

\* C8: a call with the same Oscillator and the same arguments (and, for
\* next_phase, the same incoming warp phase) as the call before it returns
\* the same result and leaves the same warp phase.
SameInputs(a, b) ==
    /\ a.op = b.op
    /\ a.self = b.self
    /\ a.phase = b.phase
    /\ a.playhead_perc = b.playhead_perc
    /\ a.warp_phase = b.warp_phase
    /\ a.op = "next_phase" =>
          /\ a.note_freq_multi = b.note_freq_multi
          /\ a.sample_hz = b.sample_hz

C9_VoicesIndependent ==
    /\ \A v \in Voices : /\ Current(v) = solo[v].phase
                         /\ warp_phase[v] = solo[v].warp_phase
    /\ IsCall => osc = last.self

\* both voices have advanced, interleaved, to different accumulators
C9_Witness ==
    /\ last.op = "next_phase"
    /\ ncalls >= 3
    /\ \A v \in Voices : /\ phase[v] # phase0(v)
                         /\ warp_phase[v] # R(0, 1)
    /\ warp_phase[1] # warp_phase[2]

\* C10: amp_at and next_phase give the same results for the Oscillator with
\* is_muted inverted, and a muted Oscillator still steps the accumulator.
C10_MuteIgnored ==
    /\ last.op = "amp_at" =>
          amp_at(Flip(last.self), last.phase, last.playhead_perc).ret = last.ret
    /\ last.op = "next_phase" =>
          LET r == next_phase(Flip(last.self), last.phase, last.playhead_perc,
                              last.note_freq_multi, last.sample_hz,
                              last.warp_phase)
          IN  /\ r.ret = last.ret
              /\ r.freq_warp_phase = warp_phase[last.voice]
    /\ (last.op = "next_phase" /\ last.self.is_muted) =>
          warp_phase[last.voice] =
              step_phase(last.self.freq_warp, last.sample_hz, last.warp_phase)

\* a muted Oscillator advances the phase and the accumulator
C10_Witness ==
    /\ last.op = "next_phase"
    /\ last.self.is_muted
    /\ ncalls > 1
    /\ warp_phase[last.voice] # last.warp_phase
    /\ last.ret # last.phase

====
